---- MODULE Spec2Model ----
(***************************************************************************)
(* Model of the reference-mode cycling engine of pyspread's                *)
(* src/lib/parsers.py: testXorYabsrel, makeXorYrel, makeXorYabs,           *)
(* makeXorYrelorabs, findpos, findcolon and OnF4.                          *)
(*                                                                         *)
(* A character is a one-character string and a text is a sequence of       *)
(* characters.  Offsets are 0-based as in the source; Slice(s, a, b) is    *)
(* the Python slice s[a:b].                                                *)
(***************************************************************************)
EXTENDS Integers, Sequences, FiniteSets, TLC

\* --------------------------------------------------------------------------
\* Python string primitives used by the source
\* --------------------------------------------------------------------------

Min(a, b) == IF a < b THEN a ELSE b

Max(a, b) == IF a < b THEN b ELSE a

\* s[a:b] for offsets a, b >= 0 (clamped to the length as Python does)
Slice(s, a, b) == SubSeq(s, a + 1, Min(b, Len(s)))

\* s[a:]
SliceFrom(s, a) == SubSeq(s, a + 1, Len(s))

\* s.find(c) for a one-character c: offset of the first occurrence, or -1
Find(s, c) ==
    IF \E i \in 1..Len(s) : s[i] = c
    THEN (CHOOSE i \in 1..Len(s) : s[i] = c /\ \A j \in 1..(i - 1) : s[j] # c) - 1
    ELSE -1

\* s.count(c)
Count(s, c) == Cardinality({i \in 1..Len(s) : s[i] = c})

Digits == {"0", "1", "2", "3", "4", "5", "6", "7", "8", "9"}

DigitSeq == <<"0", "1", "2", "3", "4", "5", "6", "7", "8", "9">>

DigitChar(d) == DigitSeq[d + 1]

DigitVal(c) == (CHOOSE i \in 1..10 : DigitSeq[i] = c) - 1

Letters == {"S", "X", "Y", "a"}

Blank == {" ", "\t"}

IsDigits(s) == Len(s) > 0 /\ \A i \in 1..Len(s) : s[i] \in Digits

RECURSIVE BaseVal(_, _)
\* value of a digit string in the given base
BaseVal(s, base) ==
    IF s = <<>> THEN 0
    ELSE BaseVal(SubSeq(s, 1, Len(s) - 1), base) * base + DigitVal(s[Len(s)])

RECURSIVE NatStr(_)
NatStr(n) ==
    IF n < 10 THEN <<DigitChar(n)>>
    ELSE NatStr(n \div 10) \o <<DigitChar(n % 10)>>

\* str(n) of an integer: decimal digits, '-' in front of a negative number
str(n) == IF n < 0 THEN <<"-">> \o NatStr(-n) ELSE NatStr(n)

RECURSIVE LStrip(_)
LStrip(s) == IF s # <<>> /\ s[1] \in Blank THEN LStrip(Tail(s)) ELSE s

RECURSIVE RStrip(_)
RStrip(s) ==
    IF s # <<>> /\ s[Len(s)] \in Blank THEN RStrip(SubSeq(s, 1, Len(s) - 1)) ELSE s

Failed == [ok |-> FALSE, v |-> 0]

\* int(text): blanks around, an optional sign, then decimal digits; anything
\* else is a ValueError (ok = FALSE)
int(text) ==
    LET t == RStrip(LStrip(text))
        signed == t # <<>> /\ t[1] \in {"+", "-"}
        d == IF signed THEN Tail(t) ELSE t
    IN  IF IsDigits(d)
        THEN [ok |-> TRUE,
              v |-> IF signed /\ t[1] = "-" THEN -BaseVal(d, 10) ELSE BaseVal(d, 10)]
        ELSE Failed

\* --------------------------------------------------------------------------
\* eval(temp, {}) of Python 2 on the texts the model can build: decimal,
\* octal (0[0-7]+) and hexadecimal (0X...) integer literals, "..." and """...""" string literals, names, list
\* displays, subscriptions and slicings, unary and binary + and -, and a
\* top-level expression list (a tuple).  No name is bound in the empty
\* environment, so a name makes the evaluation fail.
\* --------------------------------------------------------------------------

EvalChars == Digits \cup Letters \cup {" ", "+", "-", "[", "]", ",", ":", "\""}

OpChars == {"+", "-", "[", "]", ",", ":"}

\* offset (1-based) of the last character of the run of digits starting at i
RECURSIVE DigitRunEnd(_, _)
DigitRunEnd(s, i) ==
    IF i < Len(s) /\ s[i + 1] \in Digits THEN DigitRunEnd(s, i + 1) ELSE i

HexDigits == Digits \cup {"a"}

HexDigitVal(c) == IF c = "a" THEN 10 ELSE DigitVal(c)

\* offset (1-based) of the last character of the run of hex digits after i
RECURSIVE HexRunEnd(_, _)
HexRunEnd(s, i) ==
    IF i < Len(s) /\ s[i + 1] \in HexDigits THEN HexRunEnd(s, i + 1) ELSE i

RECURSIVE HexVal(_)
HexVal(s) ==
    IF s = <<>> THEN 0
    ELSE HexVal(SubSeq(s, 1, Len(s) - 1)) * 16 + HexDigitVal(s[Len(s)])

\* a number literal: "0", a decimal not starting with 0, or an octal 0[0-7]+
NumberToken(d) ==
    IF Len(d) = 1 \/ d[1] # "0" THEN [ok |-> TRUE, v |-> BaseVal(d, 10)]
    ELSE IF \A i \in 1..Len(d) : DigitVal(d[i]) < 8
         THEN [ok |-> TRUE, v |-> BaseVal(d, 8)]
         ELSE Failed

\* smallest k >= i with s[k] = s[k+1] = s[k+2] = '"', or 0
TripleEnd(s, i) ==
    LET ks == {k \in i..(Len(s) - 2) : s[k] = "\"" /\ s[k + 1] = "\"" /\ s[k + 2] = "\""}
    IN  IF ks = {} THEN 0 ELSE CHOOSE k \in ks : \A m \in ks : k <= m

\* smallest k >= i with s[k] = '"', or 0
QuoteEnd(s, i) ==
    LET ks == {k \in i..Len(s) : s[k] = "\""}
    IN  IF ks = {} THEN 0 ELSE CHOOSE k \in ks : \A m \in ks : k <= m

RECURSIVE Tokens(_, _, _)
\* the token sequence of s from (1-based) offset i on; ok = FALSE on a name,
\* an invalid number or an unterminated string
Tokens(s, i, acc) ==
    IF i > Len(s) THEN [ok |-> TRUE, toks |-> acc]
    ELSE IF s[i] \in Blank THEN Tokens(s, i + 1, acc)
    ELSE IF s[i] \in OpChars
         THEN Tokens(s, i + 1, Append(acc, [k |-> "op", c |-> s[i], n |-> 0, s |-> <<>>]))
    ELSE IF s[i] = "0" /\ i < Len(s) /\ s[i + 1] = "X"
         THEN LET j == HexRunEnd(s, i + 1)
              IN  IF j = i + 1 THEN [ok |-> FALSE, toks |-> <<>>]
                  ELSE Tokens(s, j + 1,
                              Append(acc, [k |-> "int", c |-> "",
                                           n |-> HexVal(SubSeq(s, i + 2, j)), s |-> <<>>]))
    ELSE IF s[i] \in Digits
         THEN LET j == DigitRunEnd(s, i)
                  num == NumberToken(SubSeq(s, i, j))
              IN  IF num.ok
                  THEN Tokens(s, j + 1, Append(acc, [k |-> "int", c |-> "", n |-> num.v, s |-> <<>>]))
                  ELSE [ok |-> FALSE, toks |-> <<>>]
    ELSE IF s[i] = "\""
         THEN IF i + 2 <= Len(s) /\ s[i + 1] = "\"" /\ s[i + 2] = "\""
              THEN LET k == TripleEnd(s, i + 3)
                   IN  IF k = 0 THEN [ok |-> FALSE, toks |-> <<>>]
                       ELSE Tokens(s, k + 3,
                                   Append(acc, [k |-> "str", c |-> "", n |-> 0,
                                                s |-> SubSeq(s, i + 3, k - 1)]))
              ELSE LET k == QuoteEnd(s, i + 1)
                   IN  IF k = 0 THEN [ok |-> FALSE, toks |-> <<>>]
                       ELSE Tokens(s, k + 1,
                                   Append(acc, [k |-> "str", c |-> "", n |-> 0,
                                                s |-> SubSeq(s, i + 1, k - 1)]))
    ELSE [ok |-> FALSE, toks |-> <<>>]

\* values: an integer, a string, a list of values, or a tuple (only ever the
\* final result, its elements are not needed)
VInt(n) == [t |-> "int", n |-> n, s |-> <<>>]

VStr(s) == [t |-> "str", n |-> 0, s |-> s]

VList(s) == [t |-> "list", n |-> 0, s |-> s]

VTuple == [t |-> "tuple", n |-> 0, s |-> <<>>]

VErr == [t |-> "err", n |-> 0, s |-> <<>>]

PFail == [ok |-> FALSE, val |-> VErr, p |-> 0]

POk(v, p) == [ok |-> v.t # "err", val |-> v, p |-> p]

IsOp(toks, p, c) == p <= Len(toks) /\ toks[p].k = "op" /\ toks[p].c = c

\* a + b: int + int, str + str, list + list; a TypeError otherwise
Add(a, b) ==
    IF a.t = "int" /\ b.t = "int" THEN VInt(a.n + b.n)
    ELSE IF a.t = "str" /\ b.t = "str" THEN VStr(a.s \o b.s)
    ELSE IF a.t = "list" /\ b.t = "list" THEN VList(a.s \o b.s)
    ELSE VErr

\* a - b: int - int only
Sub(a, b) == IF a.t = "int" /\ b.t = "int" THEN VInt(a.n - b.n) ELSE VErr

\* obj[i]
Index(obj, i) ==
    IF obj.t \notin {"str", "list"} \/ i.t # "int" THEN VErr
    ELSE LET n == Len(obj.s)
             j == IF i.n < 0 THEN i.n + n ELSE i.n
         IN  IF j < 0 \/ j >= n THEN VErr
             ELSE IF obj.t = "str" THEN VStr(<<obj.s[j + 1]>>) ELSE obj.s[j + 1]

\* a slice bound: absent (None) or an integer
NoBound == [some |-> FALSE, bad |-> FALSE, n |-> 0]

Bound(v) == [some |-> TRUE, bad |-> v.t # "int", n |-> IF v.t = "int" THEN v.n ELSE 0]

\* obj[lo:hi:step] as slice.indices computes it
SliceOp(obj, lo, hi, step) ==
    IF obj.t \notin {"str", "list"} \/ lo.bad \/ hi.bad \/ step.bad THEN VErr
    ELSE IF step.some /\ step.n = 0 THEN VErr
    ELSE LET n == Len(obj.s)
             st == IF step.some THEN step.n ELSE 1
             Clamp(b, dflt) ==
                 IF ~b.some THEN dflt
                 ELSE LET w == IF b.n < 0 THEN b.n + n ELSE b.n
                      IN  IF st > 0 THEN Max(0, Min(w, n)) ELSE Max(-1, Min(w, n - 1))
             a == Clamp(lo, IF st > 0 THEN 0 ELSE n - 1)
             b == Clamp(hi, IF st > 0 THEN n ELSE -1)
             cnt == IF st > 0
                    THEN (IF b > a THEN ((b - a - 1) \div st) + 1 ELSE 0)
                    ELSE (IF a > b THEN ((a - b - 1) \div (-st)) + 1 ELSE 0)
             r == [k \in 1..cnt |-> obj.s[a + (k - 1) * st + 1]]
         IN  IF obj.t = "str" THEN VStr(r) ELSE VList(r)

RECURSIVE Parse(_, _, _, _)
\* the recursive-descent parser and evaluator, one grammar rule per mode; acc
\* is the value built so far (modes arith_rest, trailer, str and list)
\*   arith       arith_expr: factor (('+' | '-') factor)*, left to right
\*   factor      ('+' | '-') factor | atom trailer*
\*   bound       an optional expression in a slice: absent before ':' or ']'
\*   trailer     trailer*: '[' test ']' | '[' [test] ':' [test] [':' [test]] ']';
\*               a subscript list with a comma is a tuple index, a TypeError
\*               on every value
\*   atom        NUMBER | STRING+ | '[' [test (',' test)* [',']] ']'
\*   str         adjacent string literals are concatenated
\*   list        the rest of a list display
Parse(mode, toks, p, acc) ==
    CASE mode = "arith" ->
            LET f == Parse("factor", toks, p, VErr)
            IN  IF f.ok THEN Parse("arith_rest", toks, f.p, f.val) ELSE PFail
      [] mode = "arith_rest" ->
            IF IsOp(toks, p, "+") \/ IsOp(toks, p, "-")
            THEN LET r == Parse("factor", toks, p + 1, VErr)
                 IN  IF ~r.ok THEN PFail
                     ELSE LET v == IF toks[p].c = "+" THEN Add(acc, r.val) ELSE Sub(acc, r.val)
                          IN  IF v.t = "err" THEN PFail
                              ELSE Parse("arith_rest", toks, r.p, v)
            ELSE POk(acc, p)
      [] mode = "factor" ->
            IF IsOp(toks, p, "+") \/ IsOp(toks, p, "-")
            THEN LET r == Parse("factor", toks, p + 1, VErr)
                 IN  IF r.ok /\ r.val.t = "int"
                     THEN POk(VInt(IF toks[p].c = "-" THEN -r.val.n ELSE r.val.n), r.p)
                     ELSE PFail
            ELSE LET a == Parse("atom", toks, p, VErr)
                 IN  IF a.ok THEN Parse("trailer", toks, a.p, a.val) ELSE PFail
      [] mode = "bound" ->
            IF IsOp(toks, p, ":") \/ IsOp(toks, p, "]")
            THEN [ok |-> TRUE, b |-> NoBound, p |-> p]
            ELSE LET r == Parse("arith", toks, p, VErr)
                 IN  [ok |-> r.ok, b |-> Bound(r.val), p |-> r.p]
      [] mode = "trailer" ->
            IF ~IsOp(toks, p, "[") THEN POk(acc, p)
            ELSE IF IsOp(toks, p + 1, "]") THEN PFail
            ELSE LET lo == Parse("bound", toks, p + 1, VErr)
                 IN  IF ~lo.ok THEN PFail
                     ELSE IF IsOp(toks, lo.p, "]")
                          THEN LET v == Index(acc, [t |-> IF lo.b.bad THEN "err" ELSE "int",
                                                    n |-> lo.b.n, s |-> <<>>])
                               IN  IF v.t = "err" THEN PFail
                                   ELSE Parse("trailer", toks, lo.p + 1, v)
                     ELSE IF ~IsOp(toks, lo.p, ":") THEN PFail
                     ELSE LET hi == Parse("bound", toks, lo.p + 1, VErr)
                          IN  IF ~hi.ok THEN PFail
                              ELSE IF IsOp(toks, hi.p, "]")
                                   THEN LET v == SliceOp(acc, lo.b, hi.b, NoBound)
                                        IN  IF v.t = "err" THEN PFail
                                            ELSE Parse("trailer", toks, hi.p + 1, v)
                              ELSE IF ~IsOp(toks, hi.p, ":") THEN PFail
                              ELSE LET st == Parse("bound", toks, hi.p + 1, VErr)
                                   IN  IF ~st.ok \/ ~IsOp(toks, st.p, "]") THEN PFail
                                       ELSE LET v == SliceOp(acc, lo.b, hi.b, st.b)
                                            IN  IF v.t = "err" THEN PFail
                                                ELSE Parse("trailer", toks, st.p + 1, v)
      [] mode = "atom" ->
            IF p > Len(toks) THEN PFail
            ELSE IF toks[p].k = "int" THEN POk(VInt(toks[p].n), p + 1)
            ELSE IF toks[p].k = "str" THEN Parse("str", toks, p + 1, toks[p].s)
            ELSE IF IsOp(toks, p, "[")
                 THEN IF IsOp(toks, p + 1, "]") THEN POk(VList(<<>>), p + 2)
                      ELSE LET r == Parse("arith", toks, p + 1, VErr)
                           IN  IF r.ok THEN Parse("list", toks, r.p, <<r.val>>) ELSE PFail
            ELSE PFail
      [] mode = "str" ->
            IF p <= Len(toks) /\ toks[p].k = "str"
            THEN Parse("str", toks, p + 1, acc \o toks[p].s)
            ELSE POk(VStr(acc), p)
      [] mode = "list" ->
            IF IsOp(toks, p, "]") THEN POk(VList(acc), p + 1)
            ELSE IF ~IsOp(toks, p, ",") THEN PFail
            ELSE IF IsOp(toks, p + 1, "]") THEN POk(VList(acc), p + 2)
            ELSE LET r == Parse("arith", toks, p + 1, VErr)
                 IN  IF r.ok THEN Parse("list", toks, r.p, Append(acc, r.val)) ELSE PFail

ParseArith(toks, p) == Parse("arith", toks, p, VErr)

RECURSIVE TupleRest(_, _)
\* after the first expression of a top-level list: (',' test)* [',']
TupleRest(toks, p) ==
    IF p > Len(toks) THEN TRUE
    ELSE IF ~IsOp(toks, p, ",") THEN FALSE
    ELSE IF p + 1 > Len(toks) THEN TRUE
    ELSE LET r == ParseArith(toks, p + 1)
         IN  r.ok /\ TupleRest(toks, r.p)

\* the value of the tokens toks, of which r is the parse of the first
\* expression: that expression alone, or a tuple
EvalParsed(toks, r) ==
    IF ~r.ok THEN VErr
    ELSE IF r.p > Len(toks) THEN r.val
    ELSE IF TupleRest(toks, r.p) THEN VTuple
    ELSE VErr

EvalTokens(tk) ==
    IF ~tk.ok \/ tk.toks = <<>> THEN VErr
    ELSE EvalParsed(tk.toks, ParseArith(tk.toks, 1))

\* eval(temp, {}): the value, or t = "err" when it raises
eval(temp) == EvalTokens(Tokens(temp, 1, <<>>))

\* --------------------------------------------------------------------------
\* The component classifier and rewriter
\* --------------------------------------------------------------------------

\* text with its first xory replaced by '0' (text[:k] + '0' + text[k+1:] with
\* k = text.find(xory); for k = -1 Python's text[:-1] drops the last character)
SubstZero(xory, text) ==
    LET k == Find(text, xory)
        head == IF k >= 0 THEN Slice(text, 0, k) ELSE SubSeq(text, 1, Len(text) - 1)
    IN  head \o <<"0">> \o SliceFrom(text, k + 1)

\* the classification 'A' + xory, 'R' + xory, 'C' + xory or '-'
testXorYabsrel(xory, text) ==
    IF int(text).ok THEN <<"A", xory>>
    ELSE IF Find(text, xory) >= 0
         THEN IF eval(SubstZero(xory, text)).t # "err" THEN <<"R", xory>> ELSE <<"C", xory>>
         ELSE <<"-">>

\* the anchor coordinate of an axis
posCursorXY(xory, posCursor) == IF xory = "X" THEN posCursor[1] ELSE posCursor[2]

Raised == [ok |-> FALSE, text |-> <<>>]

\* makeXorYrel with line 257 writing str(diff) for str(- diff)
makeXorYrelNoNegate(xory, text, posCursor) ==
    LET n == int(text)
        diff == n.v - posCursorXY(xory, posCursor)
    IN  IF ~n.ok THEN Raised
        ELSE IF diff > 0
             THEN [ok |-> TRUE, text |-> <<xory, " ", "+", " ">> \o str(diff)]
             ELSE [ok |-> TRUE, text |-> <<xory, " ", "-", " ">> \o str(diff)]

makeXorYrel(xory, text, posCursor) ==
    LET n == int(text)
        diff == n.v - posCursorXY(xory, posCursor)
    IN  IF ~n.ok THEN Raised
        ELSE IF diff > 0
             THEN [ok |-> TRUE, text |-> <<xory, " ", "+", " ">> \o str(diff)]
             ELSE [ok |-> TRUE, text |-> <<xory, " ", "-", " ">> \o str(-diff)]

\* lines 269-270: str(val + posCursorXY) for the value val of eval; it raises
\* when eval raised and when its value is not a number (TypeError)
AbsText(val, anchorXY) ==
    IF val.t # "int" THEN Raised
    ELSE [ok |-> TRUE, text |-> str(val.n + anchorXY)]

\* makeXorYabs with line 269 leaving out + posCursorXY
makeXorYabsNoAnchor(xory, text, posCursor) ==
    AbsText(eval(SubstZero(xory, text)), 0)

makeXorYabs(xory, text, posCursor) ==
    AbsText(eval(SubstZero(xory, text)), posCursorXY(xory, posCursor))

makeXorYrelorabs(xory, relorabs, text, posCursor) ==
    IF relorabs = "rel" THEN makeXorYrel(xory, text, posCursor)
    ELSE IF relorabs = "abs" THEN makeXorYabs(xory, text, posCursor)
    ELSE [ok |-> TRUE, text |-> text]

\* --------------------------------------------------------------------------
\* The bracket/quote scanner
\* --------------------------------------------------------------------------

Openers == {"(", "[", "{"}

OpenersOrQuotes == {"(", "[", "{", "'", "\""}

ClosersOrQuotes == {")", "]", "}", "'", "\""}

RECURSIVE SkipGroup(_, _, _)
\* the inner loop of findpos and findcolon: from offset pos (the opening
\* bracket itself) on, +1 on an opener or quote, -1 on a closer, until the
\* level is 0 or the text ends; the offset and level it stops with
SkipGroup(text, pos, bracketlevel) ==
    IF bracketlevel > 0 /\ pos < Len(text)
    THEN IF text[pos + 1] \in OpenersOrQuotes THEN SkipGroup(text, pos + 1, bracketlevel + 1)
         ELSE IF text[pos + 1] \in ClosersOrQuotes THEN SkipGroup(text, pos + 1, bracketlevel - 1)
         ELSE SkipGroup(text, pos + 1, bracketlevel)
    ELSE [pos |-> pos, bracketlevel |-> bracketlevel]

RECURSIVE ScanFor(_, _, _, _)
\* the outer loop shared by findpos (target ',') and findcolon (target ':'):
\* the offset of the target, or -1, and the level the scan ends with
ScanFor(target, text, pos, bracketlevel) ==
    IF pos >= Len(text) THEN [pos |-> -1, bracketlevel |-> bracketlevel]
    ELSE IF text[pos + 1] = target THEN [pos |-> pos, bracketlevel |-> bracketlevel]
    ELSE IF text[pos + 1] \in Openers
         THEN LET g == SkipGroup(text, pos, bracketlevel + 1)
              IN  ScanFor(target, text, g.pos + 1, g.bracketlevel)
    ELSE ScanFor(target, text, pos + 1, bracketlevel)

findpos(text) ==
    LET r == ScanFor(",", text, 0, 0)
    IN  IF r.pos >= 0 THEN Slice(text, 0, r.pos) ELSE text

\* bracketlevel is set once, before the loop over the two texts
findcolon(strXY) ==
    LET r0 == ScanFor(":", strXY[1], 0, 0)
        r1 == ScanFor(":", strXY[2], 0, r0.bracketlevel)
    IN  <<r0.pos, r1.pos>>

\* --------------------------------------------------------------------------
\* OnF4 as a state machine: one action per loop iteration and per block
\* --------------------------------------------------------------------------

VARIABLES
    text,         \* argument: the formula text
    posins,       \* argument: the cursor offset
    posCursor,    \* argument: the anchor cell <<x, y>>
    pc,           \* position in OnF4, or in one of the function harnesses
    posX, posY,   \* offsets of the first and the second component
    temp,         \* scratch offset of the cursor-inside search
    posS,         \* offset of the candidate 'S' of the first-reference search
    foundposin, foundposout,
    str1, str2,   \* the two component texts
    abs1, abs2,   \* their classifications
    result,       \* what the call returned
    calls,        \* number of calls already completed on this buffer
    refS, refBr,  \* offsets of the 'S' and the '[' of the located reference
    hist,         \* per call that located a reference: classes, values, mode
    trail,        \* the loop-head states this call has been in
    arg, ret      \* argument and result of the function harnesses

vars == <<text, posins, posCursor, pc, posX, posY, temp, posS, foundposin,
          foundposout, str1, str2, abs1, abs2, result, calls, refS, refBr,
          hist, trail, arg, ret>>

locals == <<posX, posY, temp, posS, foundposin, foundposout, str1, str2,
            abs1, abs2, refS, refBr>>

\* line 319 (the backquote of the source's list is left out: it cannot be
\* written in a string here, and no text of the model contains it)
separators == {" ", "\t", "+", "-", "*", "/", "%", "<", ">", "&", "|", "^", "~",
               "=", "!", "(", ")", "[", "]", "{", "}", "@", ",", ":", ".", ";"}

\* text[i] for a 0-based offset i that is in range
At(s, i) == s[i + 1]

NoResult == [kind |-> "pending", text |-> <<>>, pos |-> 0]

\* the state of the locals when a call starts (nothing is read before it is
\* assigned; foundposin and foundposout are set by line 321)
FreshLocals ==
    /\ posX = 0 /\ posY = 0 /\ temp = 0 /\ posS = -1
    /\ foundposin = FALSE /\ foundposout = FALSE
    /\ str1 = <<>> /\ str2 = <<>> /\ abs1 = <<"-">> /\ abs2 = <<"-">>
    /\ refS = -1 /\ refBr = -1

FreshLocalsNext ==
    /\ posX' = 0 /\ posY' = 0 /\ temp' = 0 /\ posS' = -1
    /\ foundposin' = FALSE /\ foundposout' = FALSE
    /\ str1' = <<>> /\ str2' = <<>> /\ abs1' = <<"-">> /\ abs2' = <<"-">>
    /\ refS' = -1 /\ refBr' = -1

\* the state of a loop of OnF4 at its head (the other locals do not change
\* while it runs)
LoopHead == <<pc, posX, temp, posS>>

\* OnF4 is deterministic: a loop that comes back to its head in a state it
\* has been in before never ends.  Such a loop is followed once round and
\* then left alone.
Revisit == pc \in {"inner", "outer"} /\ LoopHead \in trail

\* line 324: the cursor-inside search is tried for 1 < posins < len(text)
Enter ==
    /\ pc = "call"
    /\ IF posins > 1 /\ posins < Len(text)
       THEN posX' = posins /\ pc' = "inner"
       ELSE posX' = posX /\ pc' = "outer"
    /\ UNCHANGED <<text, posins, posCursor, posY, temp, posS, foundposin,
                   foundposout, str1, str2, abs1, abs2, result, calls, refS,
                   refBr, hist, arg, ret, trail>>

RECURSIVE SkipBlankBack(_, _)
\* line 331: while text[temp] in [' ', chr(9)] and temp > 0: temp -= 1
SkipBlankBack(s, t) ==
    IF At(s, t) \in Blank /\ t > 0 THEN SkipBlankBack(s, t - 1) ELSE t

\* line 333
ValidS(s, t) ==
    IF At(s, t) # "S" THEN FALSE
    ELSE IF t = 0 THEN TRUE ELSE At(s, t - 1) \in separators

\* lines 326-327: while posX > 1 and not(foundposin): posX -= 1
InnerStep ==
    /\ pc = "inner" /\ posX > 1 /\ ~foundposin
    /\ ~Revisit
    /\ trail' = trail \cup {LoopHead}
    /\ posX' = posX - 1
    /\ pc' = "inner_body"
    /\ UNCHANGED <<text, posins, posCursor, posY, temp, posS, foundposin,
                   foundposout, str1, str2, abs1, abs2, result, calls, refS,
                   refBr, hist, arg, ret>>

\* line 326: the loop ends at posX <= 1 with nothing found
InnerExit ==
    /\ pc = "inner" /\ ~(posX > 1 /\ ~foundposin)
    /\ pc' = "outer"
    /\ UNCHANGED <<text, posins, posCursor, posX, posY, temp, posS, foundposin,
                   foundposout, str1, str2, abs1, abs2, result, calls, refS,
                   refBr, hist, arg, ret, trail>>

\* line 328: text[posX] is not '['
InnerSkip ==
    /\ pc = "inner_body"
    /\ At(text, posX) # "["
    /\ pc' = "inner"
    /\ UNCHANGED <<text, posins, posCursor, posX, posY, temp, posS, foundposin,
                   foundposout, str1, str2, abs1, abs2, result, calls, refS,
                   refBr, hist, arg, ret, trail>>

\* lines 328-333: a '[' that is not preceded by a valid 'S'; line 330 has set
\* posX to the offset after the '[' and the loop goes on from there
InnerReject ==
    /\ pc = "inner_body"
    /\ At(text, posX) = "["
    /\ LET t == SkipBlankBack(text, posX - 1)
       IN  /\ ~ValidS(text, t)
           /\ temp' = t
    /\ posX' = posX + 1
    /\ pc' = "inner"
    /\ UNCHANGED <<text, posins, posCursor, posY, posS, foundposin,
                   foundposout, str1, str2, abs1, abs2, result, calls, refS,
                   refBr, hist, arg, ret, trail>>

\* lines 328-334: a '[' preceded by a valid 'S'
InnerAccept ==
    /\ pc = "inner_body"
    /\ At(text, posX) = "["
    /\ LET t == SkipBlankBack(text, posX - 1)
       IN  /\ ValidS(text, t)
           /\ refS' = t
    /\ refBr' = posX
    /\ posX' = posX + 1
    /\ temp' = posins
    /\ pc' = "scan"
    /\ UNCHANGED <<text, posins, posCursor, posY, posS, foundposin,
                   foundposout, str1, str2, abs1, abs2, result, calls, hist,
                   arg, ret, trail>>

\* line 335: while text[temp] != ']' and temp < len(text): temp += 1
ScanNext ==
    /\ pc = "scan" /\ temp < Len(text)
    /\ At(text, temp) # "]"
    /\ temp' = temp + 1
    /\ UNCHANGED <<text, posins, posCursor, pc, posX, posY, posS, foundposin,
                   foundposout, str1, str2, abs1, abs2, result, calls, refS,
                   refBr, hist, arg, ret, trail>>

\* line 335: text[temp] is read before temp < len(text) is tested
ScanRaise ==
    /\ pc = "scan" /\ temp >= Len(text)
    /\ pc' = "raised"
    /\ UNCHANGED <<text, posins, posCursor, posX, posY, temp, posS, foundposin,
                   foundposout, str1, str2, abs1, abs2, result, calls, refS,
                   refBr, hist, arg, ret, trail>>

\* lines 343-366: the components and their classes, as a record, for the
\* two substrings s1 and s2 and what findcolon says of them
Classified(pIns, pX, pY, s1, s2, colons) ==
    IF colons = <<-1, -1>>
    THEN [posX |-> pX, posY |-> pY, str1 |-> s1, str2 |-> s2,
          abs1 |-> testXorYabsrel("X", s1), abs2 |-> testXorYabsrel("Y", s2)]
    ELSE IF pIns <= pX + Len(s1)
    THEN IF colons[1] = -1
         THEN [posX |-> pX, posY |-> pY, str1 |-> s1, str2 |-> s2,
               abs1 |-> testXorYabsrel("X", s1), abs2 |-> <<"-">>]
         ELSE LET h1 == Slice(s1, 0, colons[1])
                  h2 == SliceFrom(s1, colons[1] + 1)
              IN  [posX |-> pX, posY |-> pX + colons[1] + 1,
                   str1 |-> h1, str2 |-> h2,
                   abs1 |-> testXorYabsrel("X", h1),
                   abs2 |-> testXorYabsrel("X", h2)]
    ELSE IF colons[2] = -1
         THEN [posX |-> pX, posY |-> pY, str1 |-> s1, str2 |-> s2,
               abs1 |-> <<"-">>, abs2 |-> testXorYabsrel("Y", s2)]
         ELSE LET h1 == Slice(s2, 0, colons[2])
                  h2 == SliceFrom(s2, colons[2] + 1)
              IN  [posX |-> pY, posY |-> pY + colons[2] + 1,
                   str1 |-> h1, str2 |-> h2,
                   abs1 |-> testXorYabsrel("Y", h1),
                   abs2 |-> testXorYabsrel("Y", h2)]

\* lines 339-342: posY, str2 and colons for the first substring s1
SecondOf(s, pIns, pX, pY, t, s1, s2) ==
    Classified(pIns, pX, pY, s1, s2, findcolon(<<s1, s2>>))

FirstOf(s, pIns, pX, t, s1) ==
    SecondOf(s, pIns, pX, pX + Len(s1) + 1, t, s1,
             findpos(Slice(s, pX + Len(s1) + 1, t)))

\* lines 338-366
Components(s, pIns, pX, t) == FirstOf(s, pIns, pX, t, findpos(Slice(s, pX, t)))

\* the assignments of lines 338-366
SplitTo(c) ==
    /\ posX' = c.posX /\ posY' = c.posY
    /\ str1' = c.str1 /\ str2' = c.str2
    /\ abs1' = c.abs1 /\ abs2' = c.abs2

\* lines 337-366: the ']' is found; the loop of line 326 then ends
Split ==
    /\ pc = "scan" /\ temp < Len(text)
    /\ At(text, temp) = "]"
    /\ SplitTo(Components(text, posins, posX, temp))
    /\ foundposin' = TRUE
    /\ pc' = "cycle"
    /\ UNCHANGED <<text, posins, posCursor, temp, posS, foundposout, result,
                   calls, refS, refBr, hist, arg, ret, trail>>

\* lines 371-374: another 'S' follows posS; posS = text.find('S') is the
\* first 'S' of the text every time
OuterStep ==
    /\ pc = "outer"
    /\ Find(SliceFrom(text, posS + 1), "S") >= 0
    /\ ~Revisit
    /\ trail' = trail \cup {LoopHead}
    /\ posS' = Find(text, "S")
    /\ pc' = "outer_body"
    /\ UNCHANGED <<text, posins, posCursor, posX, posY, temp, foundposin,
                   foundposout, str1, str2, abs1, abs2, result, calls, refS,
                   refBr, hist, arg, ret>>

\* line 371: the loop ends when no 'S' follows posS; nothing was found
OuterExit ==
    /\ pc = "outer"
    /\ Find(SliceFrom(text, posS + 1), "S") < 0
    /\ pc' = "cycle"
    /\ UNCHANGED <<text, posins, posCursor, posX, posY, temp, posS, foundposin,
                   foundposout, str1, str2, abs1, abs2, result, calls, refS,
                   refBr, hist, arg, ret, trail>>

\* lines 375-376: the 'S' starts a word and is not inside an open string
Candidate(s, p) ==
    IF p # 0 /\ At(s, p - 1) \notin separators THEN FALSE
    ELSE ~(Count(Slice(s, 0, p), "\"") % 2 = 1 \/ Count(Slice(s, 0, p), "'") % 2 = 1)

RECURSIVE SkipFwd(_, _)
\* line 383: while (text[posX] in [' ', chr(9), '[']) and (posX < len(text));
\* the result is len(text) when the loop runs off the end of the text
SkipFwd(s, p) ==
    IF p < Len(s) /\ At(s, p) \in {" ", "\t", "["} THEN SkipFwd(s, p + 1) ELSE p

\* lines 375-380: the 'S' is rejected and the loop goes round again
OuterReject ==
    /\ pc = "outer_body"
    /\ IF Candidate(text, posS)
       THEN posS + 1 < Len(text) /\ At(text, posS + 1) \notin {" ", "\t", "["}
       ELSE TRUE
    /\ pc' = "outer"
    /\ UNCHANGED <<text, posins, posCursor, posX, posY, temp, posS, foundposin,
                   foundposout, str1, str2, abs1, abs2, result, calls, refS,
                   refBr, hist, arg, ret, trail>>

\* lines 380 and 383: text[posS + 1] and text[posX] are read past the end
OuterRaise ==
    /\ pc = "outer_body"
    /\ Candidate(text, posS)
    /\ IF posS + 1 >= Len(text) THEN TRUE
       ELSE At(text, posS + 1) \in {" ", "\t", "["} /\ SkipFwd(text, posS + 1) >= Len(text)
    /\ pc' = "raised"
    /\ UNCHANGED <<text, posins, posCursor, posX, posY, temp, posS, foundposin,
                   foundposout, str1, str2, abs1, abs2, result, calls, refS,
                   refBr, hist, arg, ret, trail>>

\* lines 386-392: the components and their classes for the first substring s1
FirstRefOf(s, pX, pY, s1, s2) ==
    [posX |-> pX, posY |-> pY, str1 |-> s1, str2 |-> s2,
     abs1 |-> testXorYabsrel("X", s1), abs2 |-> testXorYabsrel("Y", s2)]

FirstRefY(s, pX, s1) ==
    FirstRefOf(s, pX, pX + Len(s1) + 1, s1, findpos(SliceFrom(s, pX + Len(s1) + 1)))

FirstRef(s, pX) == FirstRefY(s, pX, findpos(SliceFrom(s, pX)))

\* lines 380-395: a reference is found
OuterAccept ==
    /\ pc = "outer_body"
    /\ Candidate(text, posS)
    /\ posS + 1 < Len(text)
    /\ At(text, posS + 1) \in {" ", "\t", "["}
    /\ SkipFwd(text, posS + 1) < Len(text)
    /\ SplitTo(FirstRef(text, SkipFwd(text, posS + 1)))
    /\ refS' = posS
    /\ foundposout' = TRUE
    /\ pc' = "cycle"
    /\ UNCHANGED <<text, posins, posCursor, temp, posS, foundposin, result,
                   calls, refBr, hist, arg, ret, trail>>

\* a + b + ... of pieces each of which may have raised
Join(pieces) ==
    IF \E i \in 1..Len(pieces) : ~pieces[i].ok THEN Raised
    ELSE LET RECURSIVE Cat(_)
             Cat(k) == IF k = 0 THEN <<>> ELSE Cat(k - 1) \o pieces[k].text
         IN  [ok |-> TRUE, text |-> Cat(Len(pieces))]

Piece(s) == [ok |-> TRUE, text |-> s]

\* text[i]: an IndexError past the end
CharPiece(s, i) == IF i < Len(s) THEN Piece(<<At(s, i)>>) ELSE Raised

\* lines 402-419: the branch taken: how makeXorYrelorabs is called on the
\* first and on the second component ("" when the branch leaves it alone)
CycleBranch(a1, a2) ==
    IF a1[1] = "A" /\ a2[1] = "A" THEN [x |-> "rel", y |-> "rel"]
    ELSE IF a1[1] = "R" /\ a2[1] = "R" THEN [x |-> "", y |-> "abs"]
    ELSE IF a1[1] = "R" /\ a2[1] = "A" THEN [x |-> "abs", y |-> "rel"]
    ELSE IF a1[1] = "A" /\ a2[1] = "R" THEN [x |-> "", y |-> "abs"]
    ELSE IF a1[1] = "A" THEN [x |-> "rel", y |-> ""]
    ELSE IF a2[1] = "A" THEN [x |-> "", y |-> "rel"]
    ELSE IF a1[1] = "R" THEN [x |-> "abs", y |-> ""]
    ELSE IF a2[1] = "R" THEN [x |-> "", y |-> "abs"]
    ELSE [x |-> "", y |-> ""]

\* the three forms of the assignments of lines 403-420, for the rewritten
\* components r1 and r2: both components with the character text[posX +
\* len(str1)] between them (403-404, 408-409), the second alone (406, 411,
\* 416, 420), the first alone (414, 418); no branch leaves the text as it is
Spliced(s, b, r1, r2, s1, s2, pX, pY) ==
    IF b.x # "" /\ b.y # ""
    THEN Join(<<Piece(Slice(s, 0, pX)), r1, CharPiece(s, pX + Len(s1)), r2,
                Piece(SliceFrom(s, pY + Len(s2)))>>)
    ELSE IF b.y # ""
    THEN Join(<<Piece(Slice(s, 0, pY)), r2, Piece(SliceFrom(s, pY + Len(s2)))>>)
    ELSE IF b.x # ""
    THEN Join(<<Piece(Slice(s, 0, pX)), r1, Piece(SliceFrom(s, pX + Len(s1)))>>)
    ELSE Piece(s)

CycledBy(s, b, a1, a2, s1, s2, pX, pY, anchor) ==
    Spliced(s, b, makeXorYrelorabs(a1[2], b.x, s1, anchor),
            makeXorYrelorabs(a2[2], b.y, s2, anchor), s1, s2, pX, pY)

\* lines 402-420: the rewritten text
Cycled(s, a1, a2, s1, s2, pX, pY, anchor) ==
    CycledBy(s, CycleBranch(a1, a2), a1, a2, s1, s2, pX, pY, anchor)

\* the return of lines 422-425 with posX returned by both branches
ReturnedOffsetPosX(inside, pX) == pX

\* the offset returned with the text (lines 422-425)
ReturnedOffset(inside, pX) == IF inside THEN pX ELSE 0

\* what a call that located a reference leaves in the history
HistEntry ==
    [c |-> <<abs1[1], abs2[1]>>, v |-> <<int(str1).v, int(str2).v>>,
     inside |-> foundposin]

\* line 397 is false: the function ends without a return statement (None)
ReturnNone ==
    /\ pc = "cycle"
    /\ ~(foundposin \/ foundposout)
    /\ result' = [kind |-> "none", text |-> <<>>, pos |-> 0]
    /\ pc' = "done"
    /\ UNCHANGED <<text, posins, posCursor, posX, posY, temp, posS, foundposin,
                   foundposout, str1, str2, abs1, abs2, calls, refS, refBr,
                   hist, arg, ret, trail>>

\* lines 422-425: the rewritten text r is returned, unless rewriting raised
Returned(r) ==
    /\ r.ok
    /\ result' = [kind |-> "pair", text |-> r.text,
                  pos |-> ReturnedOffset(foundposin, posX)]

\* lines 397-425: the text is rewritten and returned with the new offset
ReturnPair ==
    /\ pc = "cycle"
    /\ foundposin \/ foundposout
    /\ Returned(Cycled(text, abs1, abs2, str1, str2, posX, posY, posCursor))
    /\ hist' = Append(hist, HistEntry)
    /\ pc' = "done"
    /\ UNCHANGED <<text, posins, posCursor, posX, posY, temp, posS, foundposin,
                   foundposout, str1, str2, abs1, abs2, calls, refS, refBr,
                   arg, ret, trail>>

\* lines 402-420: an exception of the rewriting leaves OnF4
CycleRaise ==
    /\ pc = "cycle"
    /\ foundposin \/ foundposout
    /\ ~Cycled(text, abs1, abs2, str1, str2, posX, posY, posCursor).ok
    /\ hist' = Append(hist, HistEntry)
    /\ pc' = "raised"
    /\ UNCHANGED <<text, posins, posCursor, posX, posY, temp, posS, foundposin,
                   foundposout, str1, str2, abs1, abs2, result, calls, refS,
                   refBr, arg, ret, trail>>

\* --------------------------------------------------------------------------
\* The host: it calls OnF4 on a key press and replaces its buffer and cursor
\* with the returned pair
\* --------------------------------------------------------------------------

MaxCalls == 5

MaxLen == 3

Alphabet == {"S", "[", "]", ",", " ", "1", "X", "\""}

ShortTexts == UNION {[1..n -> Alphabet] : n \in 0..MaxLen}

Lead == {<<>>, <<" ">>, <<"\"", " ">>, <<"a">>}

Gap == {<<>>, <<" ">>}

CompX == {<<"1">>, <<" ", "2">>, <<"X", " ", "+", " ", "1">>, <<"X", " ", "-", " ", "0">>,
          <<"1", ":", "2">>, <<"\"", "X", "\"">>, <<"a">>, <<>>}

CompY == {<<"2">>, <<"-", "1">>, <<"Y", " ", "+", " ", "2">>, <<"Y", "-", "1">>,
          <<"1", ":", "3">>, <<"\"", "Y", "\"">>, <<"[", "Y", "]">>, <<"Y", "1">>}

Trail == {<<"]">>, <<>>, <<"]", "S">>, <<",", "3", "]">>}

RefTexts ==
    {l \o <<"S">> \o g \o <<"[">> \o x \o <<",">> \o y \o t :
        l \in Lead, g \in Gap, x \in CompX, y \in CompY, t \in Trail}

Texts == ShortTexts \cup RefTexts

Anchors == {<<0, 0>>, <<2, 1>>}

HarnessIdle == arg = <<>> /\ ret = <<>>

Init ==
    /\ text \in Texts
    /\ posins \in 0..Len(text)
    /\ posCursor \in Anchors
    /\ pc = "call"
    /\ FreshLocals
    /\ result = NoResult
    /\ calls = 0
    /\ hist = <<>>
    /\ trail = {}
    /\ HarnessIdle

\* the next key press: the call gets the text and offset the last one returned
Feed ==
    /\ pc = "done"
    /\ result.kind = "pair"
    /\ calls + 1 < MaxCalls
    /\ text' = result.text
    /\ posins' = result.pos
    /\ calls' = calls + 1
    /\ pc' = "call"
    /\ result' = NoResult
    /\ FreshLocalsNext
    /\ trail' = {}
    /\ UNCHANGED <<posCursor, hist, arg, ret>>

Next ==
    \/ Enter
    \/ InnerStep \/ InnerExit \/ InnerSkip \/ InnerReject \/ InnerAccept
    \/ ScanNext \/ ScanRaise \/ Split
    \/ OuterStep \/ OuterExit \/ OuterReject \/ OuterRaise \/ OuterAccept
    \/ ReturnNone \/ ReturnPair \/ CycleRaise
    \/ Feed

Spec == Init /\ [][Next]_vars

\* --------------------------------------------------------------------------
\* Harness of the rewriter: makeXorYrel on str(n), then makeXorYabs on what it
\* returned
\* --------------------------------------------------------------------------

MaxN == 12

MaxCoord == 2

OnF4Idle ==
    /\ text = <<>> /\ posins = 0
    /\ FreshLocals
    /\ result = NoResult /\ calls = 0 /\ hist = <<>> /\ trail = {}

InitRewrite ==
    /\ arg \in [xory : {"X", "Y"}, n : (-MaxN)..MaxN]
    /\ posCursor \in ((-MaxCoord)..MaxCoord) \X ((-MaxCoord)..MaxCoord)
    /\ ret = [rel |-> Raised, abs |-> Raised]
    /\ pc = "rel"
    /\ OnF4Idle

DoRel ==
    /\ pc = "rel"
    /\ ret' = [ret EXCEPT !.rel = makeXorYrel(arg.xory, str(arg.n), posCursor)]
    /\ pc' = "abs"
    /\ UNCHANGED <<text, posins, posCursor, locals, result, calls, hist, arg, trail>>

DoAbs ==
    /\ pc = "abs"
    /\ ret.rel.ok
    /\ ret' = [ret EXCEPT !.abs = makeXorYabs(arg.xory, ret.rel.text, posCursor)]
    /\ pc' = "end"
    /\ UNCHANGED <<text, posins, posCursor, locals, result, calls, hist, arg, trail>>

NextRewrite == DoRel \/ DoAbs

SpecRewrite == InitRewrite /\ [][NextRewrite]_vars

\* --------------------------------------------------------------------------
\* Harness of the scanner: findpos on the first text, findcolon on the pair
\* --------------------------------------------------------------------------

MaxScanLen == 3

ScanAlphabet == {",", ":", "(", ")", "\"", "a"}

ScanTexts == UNION {[1..n -> ScanAlphabet] : n \in 0..MaxScanLen}

InitScan ==
    /\ arg \in ScanTexts \X ScanTexts
    /\ ret = [pos |-> <<>>, colons |-> <<>>]
    /\ pc = "findpos"
    /\ posCursor = <<0, 0>>
    /\ OnF4Idle

DoFindpos ==
    /\ pc = "findpos"
    /\ ret' = [ret EXCEPT !.pos = findpos(arg[1])]
    /\ pc' = "findcolon"
    /\ UNCHANGED <<text, posins, posCursor, locals, result, calls, hist, arg, trail>>

DoFindcolon ==
    /\ pc = "findcolon"
    /\ ret' = [ret EXCEPT !.colons = findcolon(arg)]
    /\ pc' = "end"
    /\ UNCHANGED <<text, posins, posCursor, locals, result, calls, hist, arg, trail>>

NextScan == DoFindpos \/ DoFindcolon

SpecScan == InitScan /\ [][NextScan]_vars

\* --------------------------------------------------------------------------
\* Properties
\* --------------------------------------------------------------------------

Located == foundposin \/ foundposout

Finished == pc \in {"done", "raised"}

\* Absolute, Relative, or Complex/unresolved ('C' + axis and '-')
Cls(a) == IF a[1] \in {"A", "R"} THEN a[1] ELSE "C"

ClassesOf(h) == [k \in 1..Len(h) |-> h[k].c]

CycleClasses == <<(<<"A", "A">>), (<<"R", "R">>), (<<"R", "A">>), (<<"A", "R">>),
                  (<<"A", "A">>)>>

\* the first call located its reference by the cursor-inside search and both
\* components are Absolute
CycleStarted ==
    /\ Len(hist) >= 1
    /\ hist[1].inside
    /\ hist[1].c = <<"A", "A">>

CycleClosed ==
    /\ CycleStarted
    /\ Len(hist) = 5
    /\ \A k \in 1..5 : hist[k].inside
    /\ ClassesOf(hist) = CycleClasses
    /\ hist[5].v = hist[1].v

\* C1: when the cursor-inside search of a first call locates a reference whose
\* two components are both Absolute, the calls that follow, each on the text
\* and offset the previous one returned, all return (none raises, loops or
\* finds nothing), locate it by the cursor-inside search again, and classify
\* it (R,R), (R,A), (A,R) and, after the fourth rewriting, (A,A) again with
\* the two integer values of the start.
CycleClosure ==
    CycleStarted =>
        /\ pc # "raised" /\ ~Revisit /\ result.kind # "none"
        /\ pc \notin {"outer", "outer_body"}
        /\ \A k \in 1..Min(Len(hist), 5) : hist[k].inside /\ hist[k].c = CycleClasses[k]
        /\ Len(hist) >= 5 => hist[5].v = hist[1].v

CycleClosedReached == CycleClosed /\ pc = "done" /\ hist[1].v # <<0, 0>>

\* the rewriting the transition table asks for, per component
TableAction(c1, c2) ==
    IF c1 = "A" /\ c2 = "A" THEN <<"rel", "rel">>
    ELSE IF c1 = "R" /\ c2 = "R" THEN <<"keep", "abs">>
    ELSE IF c1 = "R" /\ c2 = "A" THEN <<"abs", "rel">>
    ELSE IF c1 = "A" /\ c2 = "R" THEN <<"keep", "abs">>
    ELSE IF c1 = "A" THEN <<"rel", "keep">>
    ELSE IF c2 = "A" THEN <<"keep", "rel">>
    ELSE IF c1 = "R" THEN <<"abs", "keep">>
    ELSE IF c2 = "R" THEN <<"keep", "abs">>
    ELSE <<"keep", "keep">>

Applied(act, a, s) ==
    IF act = "keep" THEN s ELSE makeXorYrelorabs(a[2], act, s, posCursor).text

\* the original text with the two components replaced as the table says and
\* every other character kept
TableText ==
    LET act == TableAction(Cls(abs1), Cls(abs2))
    IN  Slice(text, 0, posX) \o Applied(act[1], abs1, str1)
        \o Slice(text, posX + Len(str1), posY) \o Applied(act[2], abs2, str2)
        \o SliceFrom(text, posY + Len(str2))

\* C2: for every located reference OnF4 returns the original text with exactly
\* the components the transition table names rewritten, and every other
\* character unchanged.
TransitionTable ==
    (Finished /\ Located) =>
        (pc = "done" /\ result.kind = "pair" /\ result.text = TableText)

\* C3: every call of OnF4 finishes.  OnF4 is deterministic, so a call fails to
\* finish exactly when one of its loops comes back to its head in a state it
\* has been in: no call does.
Termination == ~Revisit

\* an 'S[' with no ']' at or after the cursor, unbalanced square brackets, or
\* a text that ends right after 'S' or 'S['
Malformed(s, c) ==
    \/ \E i \in 1..(Len(s) - 1) :
          /\ s[i] = "S" /\ s[i + 1] = "["
          /\ \A j \in 1..Len(s) : s[j] = "]" => (j - 1 < c \/ j <= i + 1)
    \/ Count(s, "[") # Count(s, "]")
    \/ Len(s) >= 1 /\ s[Len(s)] = "S"
    \/ Len(s) >= 2 /\ s[Len(s) - 1] = "S" /\ s[Len(s)] = "["

\* C4: on a malformed reference OnF4 ends without an error and changes
\* nothing: it returns no change, or the text as it was.
MalformedNoop ==
    (Finished /\ Malformed(text, posins)) =>
        (pc = "done" /\ (result.kind = "none" \/ result.text = text))

HasRefOpen(s) == \E i \in 1..(Len(s) - 1) : s[i] = "S" /\ s[i + 1] = "["

\* C5: OnF4 returns the "no change" sentinel exactly when no reference was
\* found or both components of the found reference are Complex, and so for
\* every text without 'S['; otherwise it returns a pair.
SentinelExactly ==
    (pc = "done") =>
        /\ (result.kind = "none") <=>
               (~Located \/ (Cls(abs1) = "C" /\ Cls(abs2) = "C"))
        /\ ~HasRefOpen(text) => result.kind = "none"

\* the X substring of the reference the cursor-inside search located
InnerX == findpos(Slice(text, refBr + 1, temp))

\* the Y substring holds a colon range and the cursor lies beyond the X
\* substring
YRangeAtCursor ==
    LET ys == findpos(Slice(text, refBr + 1 + Len(InnerX) + 1, temp))
    IN  /\ posins > refBr + 1 + Len(InnerX)
        /\ findcolon(<<InnerX, ys>>)[2] # -1

\* C6 as claimed: the returned offset is (offset of the located '[') + 1 if
\* the cursor-inside search located the reference, for every shape of the
\* reference, and 0 if the first-reference search located it.
CursorOffset ==
    (pc = "done" /\ result.kind = "pair") =>
        result.pos = (IF foundposin THEN refBr + 1 ELSE 0)

\* C6 amended: the returned offset is (offset of the located '[') + 1 if the
\* cursor-inside search located the reference, except for a colon range on
\* the Y axis with the cursor in that axis, where it is the offset of the
\* first character of the Y substring; it is 0 if the first-reference search
\* located the reference.
CursorOffsetAmended ==
    (pc = "done" /\ result.kind = "pair") =>
        result.pos = (IF ~foundposin THEN 0
                      ELSE IF YRangeAtCursor THEN refBr + 1 + Len(InnerX) + 1
                      ELSE refBr + 1)

CursorOffsetYRange ==
    /\ pc = "done" /\ result.kind = "pair"
    /\ foundposin /\ YRangeAtCursor
    /\ Len(InnerX) > 0

\* C7: makeXorYabs(v, makeXorYrel(v, str(n), anchor), anchor) = str(n) for
\* every integer n, axis v and anchor.
RoundTrip ==
    (pc = "end") => (ret.abs.ok /\ ret.abs.text = str(arg.n))

RoundTripAtAnchor ==
    /\ pc = "end"
    /\ arg.n = posCursorXY(arg.xory, posCursor)
    /\ ret.rel.text = <<arg.xory, " ", "-", " ", "0">>

\* C8: the 'S' of a located reference is at offset 0 or follows a separator,
\* and the numbers of double quotes and of single quotes before it are even.
LocatedReferenceValid ==
    Located =>
        /\ IF refS = 0 THEN TRUE ELSE At(text, refS - 1) \in separators
        /\ Count(Slice(text, 0, refS), "\"") % 2 = 0
        /\ Count(Slice(text, 0, refS), "'") % 2 = 0

Closers == {")", "]", "}"}

Quotes == {"'", "\""}

RECURSIVE TopLevel(_, _, _, _, _, _)
\* the reference scanner of the specification: the offset of the first target
\* at nesting depth 0 outside a quoted run, or -1; quote is the open quote
\* character, or "" outside a quoted run; floor tells whether a closer at
\* depth 0 leaves the depth at 0 or takes it below
TopLevel(target, s, pos, depth, quote, floor) ==
    IF pos >= Len(s) THEN -1
    ELSE LET c == s[pos + 1]
         IN  IF quote # ""
             THEN TopLevel(target, s, pos + 1, depth, IF c = quote THEN "" ELSE quote, floor)
             ELSE IF c \in Quotes THEN TopLevel(target, s, pos + 1, depth, c, floor)
             ELSE IF c \in Openers THEN TopLevel(target, s, pos + 1, depth + 1, quote, floor)
             ELSE IF c \in Closers
                  THEN TopLevel(target, s, pos + 1,
                                IF floor /\ depth = 0 THEN 0 ELSE depth - 1, quote, floor)
             ELSE IF c = target /\ depth = 0 THEN pos
             ELSE TopLevel(target, s, pos + 1, depth, quote, floor)

PrefixBefore(s, k) == IF k >= 0 THEN Slice(s, 0, k) ELSE s

\* C9: findpos(text) is the prefix of text before its first top-level comma
\* (at nesting depth 0, outside a quoted run), and the whole text if there is
\* none, under either reading of an unmatched closer.
FindposIsTopLevelPrefix ==
    (pc \in {"findcolon", "end"}) =>
        \E floor \in BOOLEAN :
            ret.pos = PrefixBefore(arg[1], TopLevel(",", arg[1], 0, 0, "", floor))

\* C10: findcolon of a pair of texts is the pair of the offsets of the first
\* top-level ':' of each text (-1 if it has none), each depending on its own
\* text only, under either reading of an unmatched closer.
FindcolonIsTopLevelColon ==
    (pc = "end") =>
        \E floor \in BOOLEAN :
            ret.colons = <<TopLevel(":", arg[1], 0, 0, "", floor),
                           TopLevel(":", arg[2], 0, 0, "", floor)>>

====
